---- MODULE Spec2Model ----
(***************************************************************************)
(* The research pipeline of AI-Research-Agent: run_agent (search ->        *)
(* extract per URL -> summarize -> persist) and the report store, as       *)
(* written in src/agent.py (the command-line script, variant "agent") and  *)
(* in src/ai_research_agent/app.py (the Flask application, variant "app"). *)
(* src/ai_research_agent/agent.py is the same pipeline without a store;    *)
(* its search, extraction and summarizer are the ones modelled here.       *)
(*                                                                         *)
(* Strings are sequences of characters (one-character or one-token TLA+    *)
(* strings), so that join, split, startswith and concatenation are         *)
(* computed and not assumed.  Python's None is the record None below.      *)
(***************************************************************************)
EXTENDS Integers, Sequences, FiniteSets, TLC

VARIABLES
    variant,        \* "agent" (src/agent.py) or "app" (src/ai_research_agent/app.py)
    pc,             \* position of run_agent: Idle, Searching, Extracting, Summarizing, Persisting, Done, Raised
    query,          \* run_agent's parameter
    urls,           \* run_agent's local: the list search_online returned
    idx,            \* number of URLs the extraction loop has processed
    all_content,    \* run_agent's local: the concatenation built so far
    final_report,   \* run_agent's local: what summarize_with_gemini returned
    store,          \* the rows of table "reports", in insertion order
    open_sessions,  \* sessions created by SessionLocal() and not yet closed
    session_inserts,\* rows added through the most recently opened session
    clock,          \* datetime.utcnow, as a logical clock
    http,           \* the Flask response of the last request ("none" in the script)
    sources_list,   \* report(): single_report.sources.split(", ")
    runs,           \* run_agent invocations so far
    calls,          \* history: the external calls of the current run, in order
                    \* (for the search, also how the backend answered)
    extracted,      \* history: what extract_content_from_url returned per URL
    db_outcome,     \* history: how the store insert of the current run went
    base,           \* history: Len(store) when the current run started
    searched        \* history: per stored row, the URL list its run got from search

vars == <<variant, pc, query, urls, idx, all_content, final_report, store,
          open_sessions, session_inserts, clock, http, sources_list, runs,
          calls, extracted, db_outcome, base, searched>>

----------------------------------------------------------------------------
(* Bounds of the model *)

MaxRuns == 2        \* run_agent invocations explored
MaxLeaked == 1      \* sessions left open that are explored
Overshoot == 1      \* how many results beyond max_results the backend may send

(* Program constants *)

DefaultMaxResults == 3

----------------------------------------------------------------------------
(* Strings *)

Sep == <<",", " ">>                 \* ", "
BlankLine == <<"\n", "\n">>         \* "\n\n"
ErrorPrefix == <<"Error:">>         \* "Error:"
BackendErrorPrefix == <<"An error occurred during summarization: ">>

StartsWith(s, p) == Len(s) >= Len(p) /\ SubSeq(s, 1, Len(p)) = p

Contains(s, p) ==
    \E i \in 1..(Len(s) - Len(p) + 1) : SubSeq(s, i, i + Len(p) - 1) = p

RECURSIVE Join(_, _)
(* sep.join(list) for a list of strings *)
Join(list, sep) ==
    IF list = <<>> THEN <<>>
    ELSE IF Len(list) = 1 THEN list[1]
    ELSE list[1] \o sep \o Join(Tail(list), sep)

RECURSIVE Split(_, _)
(* s.split(sep): cut at the leftmost occurrence of sep, then split the rest *)
Split(s, sep) ==
    IF ~Contains(s, sep) THEN <<s>>
    ELSE LET i == CHOOSE k \in 1..(Len(s) - Len(sep) + 1) :
                    /\ SubSeq(s, k, k + Len(sep) - 1) = sep
                    /\ \A j \in 1..(k - 1) : SubSeq(s, j, j + Len(sep) - 1) # sep
         IN <<SubSeq(s, 1, i - 1)>> \o Split(SubSeq(s, i + Len(sep), Len(s)), sep)

None == [none |-> TRUE, text |-> <<>>]
Str(t) == [none |-> FALSE, text |-> t]
Truthy(c) == ~c.none /\ c.text # <<>>

----------------------------------------------------------------------------
(* The world outside the program: search backend, web pages, language model *)

U1 == <<"a">>
U2 == <<"b", ",">>
U3 == <<" ", "c">>
U4 == <<"d", ",", " ", "e">>
(* The backend's ranking for the query; a response is its top n *)
Catalogue == <<U2, U3, U1, U4>>

Queries == {<<"q">>}
FormQueries == Queries \cup {<<>>}      \* request.form.get("query") may be empty

(* What tavily_client.search may do when asked for max_results results: raise,
   answer without a "results" key, or answer with a result list.  The backend is
   asked for max_results but nothing in the program holds it to that. *)
ResultLists(max_results) ==
    { SubSeq(Catalogue, 1, n) :
        n \in { k \in 0..Len(Catalogue) : k <= max_results + Overshoot } }

SearchResponses(max_results) ==
    {[kind |-> "error", results |-> <<>>], [kind |-> "malformed", results |-> <<>>]}
    \cup { [kind |-> "ok", results |-> l] : l \in ResultLists(max_results) }

(* The main text of the page behind a URL *)
TextOf(url) == <<"[">> \o url \o <<"]">>

(* What requests.get and the extractors may do for one URL *)
Pages(url) ==
    { [kind |-> "timeout",    pages |-> <<>>, main |-> None],
      [kind |-> "bad_status", pages |-> <<>>, main |-> None],
      [kind |-> "pdf_corrupt", pages |-> <<>>, main |-> None],
      [kind |-> "pdf", pages |-> <<>>, main |-> None],
      [kind |-> "pdf", pages |-> << <<"[">>, url, <<"]">> >>, main |-> None],
      [kind |-> "html", pages |-> <<>>, main |-> None],
      [kind |-> "html", pages |-> <<>>, main |-> Str(TextOf(url))] }

(* What gemini_model.generate_content may do: raise, or answer with a text *)
LlmResponses ==
    { [raises |-> TRUE, text |-> <<>>] } \cup
    { [raises |-> FALSE, text |-> t] : t \in { <<>>, <<"R">>, <<"Error:", "R">> } }

(* How the insert may go: db.commit() fails, or (src/agent.py only) the row is
   committed and db.refresh() fails afterwards *)
DbOutcomes(v) ==
    IF v = "agent" THEN {"ok", "commit_fail", "refresh_fail"} ELSE {"ok", "commit_fail"}

QueryOutcomes == {"ok", "fail"}

----------------------------------------------------------------------------
(* The functions of the program *)

search_online(resp) ==
    IF resp.kind = "ok" THEN resp.results ELSE <<>>

extract_content_from_url(page) ==
    IF page.kind \in {"timeout", "bad_status", "pdf_corrupt"} THEN None
    ELSE IF page.kind = "pdf" THEN Str(Join(page.pages, <<>>))
    ELSE page.main

NoTextSentinel(v) ==
    IF v = "agent"
    THEN ErrorPrefix \o <<" No text was extracted for summarization.">>
    ELSE ErrorPrefix \o <<" No text for summarization.">>

summarize_with_gemini(v, text, llm) ==
    IF text = <<>> THEN NoTextSentinel(v)
    ELSE IF llm.raises THEN BackendErrorPrefix \o <<"e">>
    ELSE llm.text

(* a join on "," alone, which the split on ", " does not undo *)
SourcesColumn_CommaOnly(sources) == Join(sources, <<",">>)

SourcesColumn(sources) == Join(sources, Sep)

NextId(st) == Len(st) + 1

(* an insert that overwrites the newest row instead of adding one *)
InsertRow_Overwrite(st, row) ==
    IF st = <<>> THEN <<row>> ELSE [st EXCEPT ![Len(st)] = row]

InsertRow(st, row) == Append(st, row)

save_report_to_db(v, q, report_content, sources, out, st, now) ==
    LET row == [id |-> NextId(st), query |-> q, report_content |-> report_content,
                sources |-> SourcesColumn(sources), timestamp |-> now]
    IN [store  |-> IF out = "commit_fail" THEN st ELSE InsertRow(st, row),
        raised |-> (v = "app" /\ out = "commit_fail"),
        closed |-> TRUE]

(* run_agent's tests *)
(* run_agent without its "if not urls: return" *)
AfterSearch_NoEarlyReturn(found) == "Extracting"

AfterSearch(found) == IF found = <<>> THEN "Done" ELSE "Extracting"

Accumulate(v, acc, content) ==
    IF ~Truthy(content) THEN acc
    ELSE IF v = "agent" THEN acc \o content.text \o BlankLine
    ELSE acc \o content.text

(* a loop that stops after the first URL *)
LoopDone_FirstOnly(i, found) == i >= 1

LoopDone(i, found) == i = Len(found)

(* run_agent without its "if not all_content: return" *)
AfterExtract_NoEarlyReturn(acc) == "Summarizing"

AfterExtract(acc) == IF acc = <<>> THEN "Done" ELSE "Summarizing"

ShouldSave(v, report) ==
    IF v = "agent" THEN report # <<>>
    ELSE report # <<>> /\ ~StartsWith(report, ErrorPrefix)

(* The Flask views of app.py: the session is closed by a plain statement after
   the query, so a query that raises leaves it open *)
index(out) ==
    [closed |-> out = "ok", status |-> IF out = "ok" THEN "index" ELSE "500"]

report(report_id, out, st) ==
    IF out # "ok" THEN [closed |-> FALSE, status |-> "500", sources |-> <<>>]
    ELSE IF report_id \notin 1..Len(st)
         THEN [closed |-> TRUE, status |-> "404", sources |-> <<>>]
         ELSE [closed |-> TRUE, status |-> "report",
               sources |-> Split(st[report_id].sources, Sep)]

----------------------------------------------------------------------------
(* The state machine *)

Init ==
    /\ variant \in {"agent", "app"}
    /\ pc = "Idle"
    /\ query = <<>>
    /\ urls = <<>>
    /\ idx = 0
    /\ all_content = <<>>
    /\ final_report = <<>>
    /\ store = <<>>
    /\ open_sessions = 0
    /\ session_inserts = 0
    /\ clock = 0
    /\ http = "none"
    /\ sources_list = <<>>
    /\ runs = 0
    /\ calls = <<>>
    /\ extracted = <<>>
    /\ db_outcome = "none"
    /\ base = 0
    /\ searched = <<>>

(* run_agent(q) is entered: its locals are fresh *)
Enter(q) ==
    /\ pc' = "Searching"
    /\ query' = q
    /\ urls' = <<>>
    /\ idx' = 0
    /\ all_content' = <<>>
    /\ final_report' = <<>>
    /\ runs' = runs + 1
    /\ clock' = clock + 1
    /\ http' = "none"
    /\ sources_list' = <<>>
    /\ calls' = <<>>
    /\ extracted' = <<>>
    /\ db_outcome' = "none"
    /\ base' = Len(store)
    /\ UNCHANGED <<variant, store, open_sessions, session_inserts, searched>>

(* src/agent.py: python agent.py runs run_agent(user_query) *)
Main ==
    /\ variant = "agent"
    /\ pc = "Idle"
    /\ runs < MaxRuns
    /\ \E q \in Queries : Enter(q)

(* app.py: POST /run calls run_agent only for a non-empty form query *)
RunRoute ==
    /\ variant = "app"
    /\ pc = "Idle"
    /\ \E q \in FormQueries :
        IF q # <<>>
        THEN runs < MaxRuns /\ Enter(q)
        ELSE /\ http' = "redirect"
             /\ sources_list' = <<>>
             /\ UNCHANGED <<variant, pc, query, urls, idx, all_content, final_report,
                            store, open_sessions, session_inserts, clock, runs,
                            calls, extracted, db_outcome, base, searched>>

(* urls = search_online(query); if not urls: return *)
Search ==
    /\ pc = "Searching"
    /\ \E resp \in SearchResponses(DefaultMaxResults) :
        /\ urls' = search_online(resp)
        /\ pc' = AfterSearch(urls')
        /\ calls' = Append(calls, [op |-> "search", arg |-> 0, how |-> resp.kind])
    /\ UNCHANGED <<variant, query, idx, all_content, final_report, store,
                   open_sessions, session_inserts, clock, http, sources_list, runs, extracted, db_outcome, base, searched>>

(* one turn of the loop over urls, and after the last one: if not all_content: return *)
Extract ==
    /\ pc = "Extracting"
    /\ idx < Len(urls)
    /\ \E page \in Pages(urls[idx + 1]) :
        LET content == extract_content_from_url(page) IN
        /\ all_content' = Accumulate(variant, all_content, content)
        /\ extracted' = Append(extracted, content)
    /\ idx' = idx + 1
    /\ calls' = Append(calls, [op |-> "extract", arg |-> idx + 1, how |-> ""])
    /\ pc' = IF LoopDone(idx', urls) THEN AfterExtract(all_content') ELSE "Extracting"
    /\ UNCHANGED <<variant, query, urls, final_report, store, open_sessions,
                   session_inserts, clock, http, sources_list, runs,
                   db_outcome, base, searched>>

(* final_report = summarize_with_gemini(all_content, query) *)
Summarize ==
    /\ pc = "Summarizing"
    /\ \E llm \in LlmResponses :
        final_report' = summarize_with_gemini(variant, all_content, llm)
    /\ calls' = Append(calls, [op |-> "summarize", arg |-> 0, how |-> ""])
    /\ pc' = "Persisting"
    /\ UNCHANGED <<variant, query, urls, idx, all_content, store, open_sessions,
                   session_inserts, clock, http, sources_list, runs,
                   extracted, db_outcome, base, searched>>

(* if final_report ...: save_report_to_db(query, final_report, urls) *)
Persist ==
    /\ pc = "Persisting"
    /\ IF ShouldSave(variant, final_report)
       THEN \E out \in DbOutcomes(variant) :
            LET r == save_report_to_db(variant, query, final_report, urls, out,
                                       store, clock) IN
            /\ store' = r.store
            /\ searched' = IF Len(r.store) > Len(store)
                           THEN Append(searched, urls) ELSE searched
            /\ open_sessions' = open_sessions + (IF r.closed THEN 0 ELSE 1)
            /\ session_inserts' = 1
            /\ db_outcome' = out
            /\ calls' = Append(calls, [op |-> "insert", arg |-> 0, how |-> ""])
            /\ pc' = IF r.raised THEN "Raised" ELSE "Done"
       ELSE /\ pc' = "Done"
            /\ UNCHANGED <<store, searched, open_sessions, session_inserts,
                           db_outcome, calls>>
    /\ UNCHANGED <<variant, query, urls, idx, all_content, final_report, clock,
                   http, sources_list, runs, extracted, base>>

(* run_agent returns (or its exception reaches the caller); its locals are gone *)
Return ==
    /\ pc \in {"Done", "Raised"}
    /\ pc' = "Idle"
    /\ http' = IF variant = "agent" THEN "none"
               ELSE IF pc = "Raised" THEN "500" ELSE "redirect"
    /\ query' = <<>>
    /\ urls' = <<>>
    /\ idx' = 0
    /\ all_content' = <<>>
    /\ final_report' = <<>>
    /\ calls' = <<>>
    /\ extracted' = <<>>
    /\ db_outcome' = "none"
    /\ base' = Len(store)
    /\ UNCHANGED <<variant, store, open_sessions, session_inserts, clock,
                   sources_list, runs, searched>>

(* app.py: GET / *)
Index ==
    /\ variant = "app"
    /\ pc = "Idle"
    /\ \E out \in QueryOutcomes :
        LET r == index(out) IN
        /\ r.closed \/ open_sessions < MaxLeaked
        /\ open_sessions' = open_sessions + (IF r.closed THEN 0 ELSE 1)
        /\ http' = r.status
    /\ session_inserts' = 0
    /\ sources_list' = <<>>
    /\ UNCHANGED <<variant, pc, query, urls, idx, all_content, final_report, store,
                   clock, runs, calls, extracted, db_outcome, base, searched>>

(* app.py: GET /report/<report_id> *)
ReportView ==
    /\ variant = "app"
    /\ pc = "Idle"
    /\ \E report_id \in 1..(Len(store) + 1), out \in QueryOutcomes :
        LET r == report(report_id, out, store) IN
        /\ r.closed \/ open_sessions < MaxLeaked
        /\ open_sessions' = open_sessions + (IF r.closed THEN 0 ELSE 1)
        /\ http' = r.status
        /\ sources_list' = r.sources
    /\ session_inserts' = 0
    /\ UNCHANGED <<variant, pc, query, urls, idx, all_content, final_report, store,
                   clock, runs, calls, extracted, db_outcome, base, searched>>

Next ==
    \/ Main
    \/ RunRoute
    \/ Search
    \/ Extract
    \/ Summarize
    \/ Persist
    \/ Return
    \/ Index
    \/ ReportView

Spec == Init /\ [][Next]_vars

----------------------------------------------------------------------------
(* Vocabulary of the properties *)

Called(op) == \E i \in 1..Len(calls) : calls[i].op = op

InRun == pc \notin {"Idle", "Searching"}        \* the search has returned

Ended == pc \in {"Done", "Raised"}

AllFailed == \A i \in 1..Len(extracted) : ~Truthy(extracted[i])

(* The two strings summarize_with_gemini makes up itself *)
IsSummarizerError(v, r) == r = NoTextSentinel(v) \/ StartsWith(r, BackendErrorPrefix)

(* A report: a non-empty text that carries neither error prefix *)
RealReport(r) ==
    /\ r # <<>>
    /\ ~StartsWith(r, ErrorPrefix)
    /\ ~StartsWith(r, BackendErrorPrefix)

NoSepIn(list) == \A i \in 1..Len(list) : ~Contains(list[i], Sep)

RECURSIVE ExpectedConcat(_)
(* each non-null non-empty text followed by the blank line, in order *)
ExpectedConcat(contents) ==
    IF contents = <<>> THEN <<>>
    ELSE (IF Truthy(Head(contents)) THEN Head(contents).text \o BlankLine ELSE <<>>)
         \o ExpectedConcat(Tail(contents))

Rank(p) ==
    CASE p = "Idle" -> 0
      [] p = "Searching" -> 1
      [] p = "Extracting" -> 2
      [] p = "Summarizing" -> 3
      [] p = "Persisting" -> 4
      [] OTHER -> 5

----------------------------------------------------------------------------
(* C1: whenever the summarizer returns one of its own error strings (the
   empty-input sentinel or the backend-failure string), the run ends with no
   Report appended to the store. *)
C1_NoReportOnSummarizerError ==
    (Ended /\ Called("summarize") /\ IsSummarizerError(variant, final_report))
        => Len(store) = base

(* C2: if the search step returns an empty URL list (also when the backend
   raised or answered without results), run_agent returns normally, appends no
   Report and makes no extract, summarize or insert call. *)
C2_EmptySearchStops ==
    (InRun /\ urls = <<>>)
        => /\ pc = "Done"
           /\ Len(calls) = 1
           /\ calls[1].op = "search"
           /\ extracted = <<>>
           /\ Len(store) = base

C2_Witness ==
    /\ pc = "Done"
    /\ urls = <<>>
    /\ Len(calls) = 1
    /\ calls[1].how = "error"
    /\ Len(store) = 1

(* C3: if the URL list is non-empty and every extraction failed (exception, bad
   status, null or empty text), run_agent appends no Report and never calls the
   summarizer. *)
C3_AllExtractionsFailStops ==
    (InRun /\ urls # <<>> /\ idx = Len(urls) /\ AllFailed)
        => /\ pc = "Done"
           /\ ~Called("summarize")
           /\ ~Called("insert")
           /\ Len(store) = base

C3_Witness ==
    /\ pc = "Done"
    /\ Len(urls) = 3
    /\ idx = 3
    /\ AllFailed
    /\ extracted[1] = None
    /\ extracted[2] = Str(<<>>)
    /\ Len(store) = 1

(* C4: for every stored Report whose run got URLs none of which contains ", ",
   splitting the stored sources on ", " gives exactly the URL list the search
   returned, in order, whichever extractions succeeded; the report view shows
   that list. *)
C4_SourcesRoundTrip ==
    /\ Len(searched) = Len(store)
    /\ \A i \in 1..Len(store) :
        NoSepIn(searched[i]) => Split(store[i].sources, Sep) = searched[i]
    /\ (http = "report" /\ \A i \in 1..Len(store) : NoSepIn(searched[i]))
        => \E i \in 1..Len(store) : sources_list = searched[i]

C4_Witness ==
    /\ pc = "Done"
    /\ Len(store) = base + 1
    /\ Len(urls) = 3
    /\ NoSepIn(urls)
    /\ Truthy(extracted[1])
    /\ ~Truthy(extracted[2])
    /\ ~Truthy(extracted[3])
    /\ store[Len(store)].sources = U2 \o Sep \o U3 \o Sep \o U1

(* C5: the text passed to the summarizer is the concatenation, in URL order, of
   each non-null non-empty extracted text followed by "\n\n", and nothing else. *)
C5_SummarizerInput ==
    (pc = "Summarizing" \/ Called("summarize"))
        => all_content = ExpectedConcat(extracted)

(* C6: each invocation appends at most one Report, and exactly one when the
   search returned URLs, some extraction gave non-empty text, the summarizer
   returned a real report and the insert did not fail; a stored Report never
   changes and is never deleted. *)
C6_AtMostOne ==
    /\ Len(store) \in {base, base + 1}
    /\ (/\ Ended
        /\ urls # <<>>
        /\ ~AllFailed
        /\ Called("summarize")
        /\ RealReport(final_report)
        /\ db_outcome # "commit_fail")
        => /\ Len(store) = base + 1
           /\ store[Len(store)].id = Len(store)
           /\ store[Len(store)].query = query
           /\ store[Len(store)].report_content = final_report
           /\ store[Len(store)].timestamp = clock

C6_Immutable ==
    /\ Len(store') \in {Len(store), Len(store) + 1}
    /\ \A i \in 1..Len(store) : store'[i] = store[i]
    /\ \A i, j \in 1..Len(store') : store'[i].id = store'[j].id => i = j

C6_AppendOnly == [](C6_AtMostOne) /\ [][C6_Immutable]_vars

C6_Witness ==
    /\ pc = "Done"
    /\ base = 1
    /\ Len(store) = 2
    /\ RealReport(final_report)
    /\ db_outcome = "ok"
    /\ store[1].sources # store[2].sources

(* C7: search_online returns at most max_results URLs whatever the backend
   answers, so a run never fetches more than 3 URLs. *)
C7_AtMostLimit ==
    InRun => (Len(urls) <= DefaultMaxResults /\ idx <= DefaultMaxResults)

(* C8: no failure of a collaborator reaches run_agent's caller as an exception. *)
C8_NeverRaises == pc # "Raised"

(* C9: every session a store operation opens is closed when the operation ends,
   on every exit path, and none carries more than one insert. *)
C9_SessionsClosed ==
    /\ pc \in {"Idle", "Done", "Raised"} => open_sessions = 0
    /\ session_inserts <= 1

(* C10: in a run the calls are: the search, once; then one extraction per URL
   in list order, none repeated; then at most one summarize, only after every
   URL was processed and with a non-empty concatenation; then at most one
   insert, only after the summarizer returned; and nothing runs after Done. *)
C10_Order ==
    /\ pc \in {"Idle", "Searching"} => calls = <<>>
    /\ InRun =>
        /\ Len(calls) >= 1
        /\ calls[1].op = "search"
        /\ \A i \in 2..Len(calls) : calls[i].op # "search"
        /\ idx <= Len(urls)
        /\ Len(calls) >= idx + 1
        /\ Len(calls) <= Len(urls) + 3
        /\ \A i \in 1..idx : calls[i + 1].op = "extract" /\ calls[i + 1].arg = i
        /\ \A i \in (idx + 2)..Len(calls) : calls[i].op \in {"summarize", "insert"}
        /\ Called("summarize") =>
            /\ idx = Len(urls)
            /\ all_content # <<>>
            /\ calls[idx + 2].op = "summarize"
            /\ pc \in {"Persisting", "Done", "Raised"}
        /\ Called("insert") =>
            /\ Len(calls) = idx + 3
            /\ calls[idx + 2].op = "summarize"
            /\ calls[idx + 3].op = "insert"
            /\ Ended
        /\ pc = "Summarizing" => (idx = Len(urls) /\ Len(calls) = idx + 1)

C10_Forward ==
    /\ (pc # "Idle" /\ pc' # "Idle") => Rank(pc') >= Rank(pc)
    /\ Ended => (pc' = "Idle" /\ store' = store /\ open_sessions' = open_sessions)

C10_CallOrder == [](C10_Order) /\ [][C10_Forward]_vars

C10_Witness ==
    /\ pc = "Done"
    /\ Len(urls) = 3
    /\ Len(calls) = 6
    /\ calls[5].op = "summarize"
    /\ calls[6].op = "insert"
    /\ ~Truthy(extracted[1])

====
